---------------------------- MODULE Spec2Model ----------------------------
(***************************************************************************)
(* A model of e-dard/headlines (generator.go): the sorted token index, the *)
(* three-pass chain build over a tee'd reader, and phrase generation.      *)
(*                                                                         *)
(* Strings are sequences of bytes (numbers), compared bytewise as Go       *)
(* compares strings.  Positions are 0-based, as in the code; TLA+          *)
(* sequences are 1-based, so position p is element p+1.                    *)
(***************************************************************************)
EXTENDS Integers, Sequences, FiniteSets, TLC

VARIABLES
    prefixLength,       \* Chain.prefixLength
    tokensIdx,          \* Chain.tokensIdx.tokens
    startingPrefixIdx,  \* Chain.startingPrefixIdx.tokens
    chain,              \* Chain.chain : prefix string -> suffix positions
    sp,                 \* Chain.sp
    corpus,             \* the reader handed to Build: its bytes and how it ends
    b1, b2,             \* the two buffers Build tees the reader into
    pc,                 \* where the Chain's caller is
    buildErr,           \* what Build returned
    gen,                \* the last Generate call: argument, outcome, phrase
    added,              \* the tokens passed to index.Add so far
    nAdds,              \* how many Add calls were made
    found               \* the last index.Find call: argument and result

vars == <<prefixLength, tokensIdx, startingPrefixIdx, chain, sp, corpus,
          b1, b2, pc, buildErr, gen, added, nAdds, found>>

---------------------------------------------------------------------------
(* Bounds *)

MaxBytes == 7
MaxPrefixLength == 2
MaxGen == 3
MaxAdds == 6

---------------------------------------------------------------------------
(* Bytes and strings *)

\* const delim = " "
delim == 32

\* byte('\n'), the line terminator ReadBytes reads up to
newline == 10

\* the bytes a modelled reader can deliver: newline, space, 'a'
Alphabet == {newline, delim, 97}

\* what strings.TrimSpace strips (ASCII part of unicode.IsSpace)
IsSpace(b) == b \in {9, 10, 11, 12, 13, 32}

Min(a, b) == IF a < b THEN a ELSE b

\* Go's s < t on strings: bytewise lexicographic order
StrLess(s, t) ==
    \/ \E i \in 1..Min(Len(s), Len(t)) :
          /\ \A j \in 1..(i - 1) : s[j] = t[j]
          /\ s[i] < t[i]
    \/ /\ Len(s) < Len(t)
       /\ \A j \in 1..Len(s) : s[j] = t[j]

\* strings.TrimSpace: drop leading and trailing white space
RECURSIVE TrimLeft(_)
TrimLeft(s) ==
    IF s # <<>> /\ IsSpace(Head(s)) THEN TrimLeft(Tail(s)) ELSE s

RECURSIVE TrimRight(_)
TrimRight(s) ==
    IF s # <<>> /\ IsSpace(s[Len(s)])
    THEN TrimRight(SubSeq(s, 1, Len(s) - 1))
    ELSE s

TrimSpace(s) == TrimRight(TrimLeft(s))

\* position (1-based) of the first occurrence of byte b in s, 0 if none
RECURSIVE IndexFrom(_, _, _)
IndexFrom(s, b, i) ==
    IF i > Len(s) THEN 0
    ELSE IF s[i] = b THEN i
    ELSE IndexFrom(s, b, i + 1)

IndexByte(s, b) == IndexFrom(s, b, 1)

\* strings.Split(s, sep) for a one-byte separator: always at least one piece
RECURSIVE Split(_, _)
Split(s, sep) ==
    LET k == IndexByte(s, sep)
    IN  IF k = 0 THEN <<s>>
        ELSE <<SubSeq(s, 1, k - 1)>> \o Split(SubSeq(s, k + 1, Len(s)), sep)

\* strings.Join(elems, sep)
RECURSIVE Join(_, _)
Join(elems, sep) ==
    IF elems = <<>> THEN <<>>
    ELSE IF Len(elems) = 1 THEN elems[1]
    ELSE elems[1] \o <<sep>> \o Join(Tail(elems), sep)

---------------------------------------------------------------------------
(* index *)

\* sort.SearchStrings(a, x): binary search for the smallest position i in
\* [0, len(a)] with a[i] >= x, on the half-open range [i, j)
RECURSIVE Search(_, _, _, _)
Search(a, x, i, j) ==
    IF i < j
    THEN LET h == (i + j) \div 2
         IN  IF StrLess(a[h + 1], x)
             THEN Search(a, x, h + 1, j)
             ELSE Search(a, x, i, h)
    ELSE i

SearchStrings(a, x) == Search(a, x, 0, Len(a))

\* Add with the new token put one place too far right
AddOffByOne(tokens, token) ==
    LET i == SearchStrings(tokens, token)
    IN  IF i = Len(tokens) THEN Append(tokens, token)
        ELSE IF tokens[i + 1] # token
             THEN SubSeq(tokens, 1, i + 1) \o <<token>> \o SubSeq(tokens, i + 2, Len(tokens))
             ELSE tokens

\* index.Add: the tokens after Add(token)
Add(tokens, token) ==
    LET i == SearchStrings(tokens, token)
    IN  IF i = Len(tokens) THEN Append(tokens, token)
        ELSE IF tokens[i + 1] # token
             THEN SubSeq(tokens, 1, i) \o <<token>> \o SubSeq(tokens, i + 1, Len(tokens))
             ELSE tokens

\* whether index.Get(i) is in range (out of range is a run-time panic)
InRange(tokens, i) == 0 <= i /\ i < Len(tokens)

\* index.Get
Get(tokens, i) == tokens[i + 1]

\* Find that accepts a stored token of which `token` is only a prefix
FindPrefixMatch(tokens, token) ==
    LET i == SearchStrings(tokens, token)
    IN  IF i = Len(tokens)
           \/ Len(tokens[i + 1]) < Len(token)
           \/ SubSeq(tokens[i + 1], 1, Len(token)) # token
        THEN -1 ELSE i

\* index.Find
Find(tokens, token) ==
    LET i == SearchStrings(tokens, token)
    IN  IF i = Len(tokens) \/ tokens[i + 1] # token THEN -1 ELSE i

---------------------------------------------------------------------------
(* processStream *)

\* the tokens of one line: strings.Split(strings.TrimSpace(line), delim)
Tokenize(line) == Split(TrimSpace(line), delim)

\* processStream that hands the fragment read with an error to the callback
RECURSIVE processStreamKeepsFragment(_, _)
processStreamKeepsFragment(bytes, end) ==
    LET k == IndexByte(bytes, newline)
    IN  IF k > 0
        THEN LET rest == processStreamKeepsFragment(SubSeq(bytes, k + 1, Len(bytes)), end)
             IN  [calls |-> <<Tokenize(SubSeq(bytes, 1, k))>> \o rest.calls,
                  err   |-> rest.err]
        ELSE [calls |-> <<Tokenize(bytes)>>,
              err   |-> IF end # "EOF" THEN "err" ELSE "nil"]

\* processStream(r, processTokens) on a reader that delivers `bytes` and then
\* ends with `end` ("EOF" or "ERR"): the token slices handed to the callback,
\* in order, and the error returned.  ReadBytes returns a line up to and
\* including the next newline, or what is left together with the reader's
\* end; a fragment read with an error other than io.EOF is dropped.
RECURSIVE processStream(_, _)
processStream(bytes, end) ==
    LET k == IndexByte(bytes, newline)
    IN  IF k > 0
        THEN LET rest == processStream(SubSeq(bytes, k + 1, Len(bytes)), end)
             IN  [calls |-> <<Tokenize(SubSeq(bytes, 1, k))>> \o rest.calls,
                  err   |-> rest.err]
        ELSE IF end # "EOF"
             THEN [calls |-> <<>>, err |-> "err"]
             ELSE [calls |-> <<Tokenize(bytes)>>, err |-> "nil"]

---------------------------------------------------------------------------
(* Chain: the three callbacks of Build *)

\* the empty map[string][]int32
EmptyChain == [k \in {} |-> <<>>]

\* c.chain[key], the zero value (nil slice) when key is absent
Lookup(m, key) == IF key \in DOMAIN m THEN m[key] ELSE <<>>

\* c.chain[prefix] = []int32{suffixI}: the earlier suffixes are lost
ChainOverwrite(m, prefix, suffixI) ==
    [k \in DOMAIN m \cup {prefix} |->
        IF k = prefix THEN <<suffixI>> ELSE m[k]]

\* c.chain[prefix] = append(c.chain[prefix], suffixI)
ChainAppend(m, prefix, suffixI) ==
    [k \in DOMAIN m \cup {prefix} |->
        IF k = prefix THEN Append(Lookup(m, prefix), suffixI) ELSE m[k]]

\* the callback with its loop one short: the line's last token is not added
RECURSIVE processTokensSkipLast(_, _)
processTokensSkipLast(idx, tokens) ==
    IF Len(tokens) <= 1 THEN idx
    ELSE processTokensSkipLast(Add(idx, Head(tokens)), Tail(tokens))

\* buildTokenIndex's callback: Add every token of the line
RECURSIVE processTokens(_, _)
processTokens(idx, tokens) ==
    IF tokens = <<>> THEN idx
    ELSE processTokens(Add(idx, Head(tokens)), Tail(tokens))

\* buildPrefixIndex's callback: Add the line's first prefixLength tokens, joined
processStartingPrefixes(idx, tokens) ==
    IF Len(tokens) >= prefixLength
    THEN Add(idx, Join(SubSeq(tokens, 1, prefixLength), delim))
    ELSE idx

\* buildChain's callback from window i on; st is the chain, sp and whether a
\* lookup failed (the panic)
RECURSIVE processPhrase(_, _, _)
processPhrase(st, tokens, i) ==
    IF st.panicked \/ ~(i < Len(tokens) - prefixLength) THEN st
    ELSE LET prefix  == Join(SubSeq(tokens, i + 1, i + prefixLength), delim)
             suffix  == tokens[i + prefixLength + 1]
             suffixI == Find(tokensIdx, suffix)
             startingPrefixI == Find(startingPrefixIdx, prefix)
         IN  IF suffixI = -1 THEN [st EXCEPT !.panicked = TRUE]
             ELSE LET ch == ChainAppend(st.chain, prefix, suffixI)
                  IN  IF i = 0
                      THEN IF startingPrefixI = -1
                           THEN [chain |-> ch, sp |-> st.sp, panicked |-> TRUE]
                           ELSE processPhrase(
                                    [chain |-> ch,
                                     sp |-> Append(st.sp, startingPrefixI),
                                     panicked |-> FALSE], tokens, i + 1)
                      ELSE processPhrase(
                               [chain |-> ch, sp |-> st.sp, panicked |-> FALSE],
                               tokens, i + 1)

\* the three passes: the callback applied to every line processStream hands over
RECURSIVE TokenPass(_, _)
TokenPass(idx, calls) ==
    IF calls = <<>> THEN idx
    ELSE TokenPass(processTokens(idx, Head(calls)), Tail(calls))

RECURSIVE PrefixPass(_, _)
PrefixPass(idx, calls) ==
    IF calls = <<>> THEN idx
    ELSE PrefixPass(processStartingPrefixes(idx, Head(calls)), Tail(calls))

RECURSIVE ChainPass(_, _)
ChainPass(st, calls) ==
    IF calls = <<>> THEN st
    ELSE ChainPass(processPhrase(st, Head(calls), 0), Tail(calls))

---------------------------------------------------------------------------
(* Generate *)

NoGen == [l |-> 0, res |-> "none", out |-> <<>>]

GenPanic == [res |-> "panic", out |-> <<>>]

\* the loop keyed on the phrase's first prefixLength tokens, not its last
RECURSIVE WalkFirstKey(_, _)
WalkFirstKey(sentence, l) ==
    IF ~(Len(sentence) < l)
    THEN {[res |-> "ok", out |-> Join(sentence, delim)]}
    ELSE LET prefix == SubSeq(sentence, 1, prefixLength)
             suffixesI == Lookup(chain, Join(prefix, delim))
         IN  IF Len(suffixesI) = 0
             THEN {[res |-> "ok", out |-> Join(sentence, delim)]}
             ELSE UNION { IF InRange(tokensIdx, suffixesI[i])
                          THEN WalkFirstKey(Append(sentence, Get(tokensIdx, suffixesI[i])), l)
                          ELSE {GenPanic} : i \in 1..Len(suffixesI) }

\* the loop of Generate from `sentence` on: every phrase the random draws can
\* return (an out-of-range Get is a panic)
RECURSIVE Walk(_, _)
Walk(sentence, l) ==
    IF ~(Len(sentence) < l)
    THEN {[res |-> "ok", out |-> Join(sentence, delim)]}
    ELSE LET prefix == SubSeq(sentence, Len(sentence) - prefixLength + 1, Len(sentence))
             suffixesI == Lookup(chain, Join(prefix, delim))
         IN  IF Len(suffixesI) = 0
             THEN {[res |-> "ok", out |-> Join(sentence, delim)]}
             ELSE UNION { IF InRange(tokensIdx, suffixesI[i])
                          THEN Walk(Append(sentence, Get(tokensIdx, suffixesI[i])), l)
                          ELSE {GenPanic} : i \in 1..Len(suffixesI) }

\* Generate(l) after the draw i for the starting prefix
StartFrom(i, l) ==
    IF ~InRange(startingPrefixIdx, sp[i + 1]) THEN {GenPanic}
    ELSE LET sentence == Split(Get(startingPrefixIdx, sp[i + 1]), delim)
         IN  IF Len(sentence) < prefixLength
             THEN {[res |-> "error", out |-> <<>>]}
             ELSE Walk(sentence, l)

\* every outcome of Generate(l); rand.Intn(0) panics
GenerateOutcomes(l) ==
    IF Len(sp) = 0 THEN {GenPanic}
    ELSE UNION { StartFrom(i, l) : i \in 0..(Len(sp) - 1) }

---------------------------------------------------------------------------
(* The Chain's life: NewChain, Build in its three passes, Generate *)

\* every byte string a modelled reader delivers
Streams == UNION { [1..n -> Alphabet] : n \in 0..MaxBytes }

GenLengths == -1..MaxGen

NoCorpus == [bytes |-> <<>>, end |-> "EOF"]
NoFind == [token |-> <<>>, pos |-> -2]

\* NewChain(l)
Init ==
    /\ prefixLength \in 1..MaxPrefixLength
    /\ tokensIdx = <<>>
    /\ startingPrefixIdx = <<>>
    /\ chain = EmptyChain
    /\ sp = <<>>
    /\ corpus = NoCorpus
    /\ b1 = <<>>
    /\ b2 = <<>>
    /\ pc = "new"
    /\ buildErr = "none"
    /\ gen = NoGen
    /\ added = {}
    /\ nAdds = 0
    /\ found = NoFind

\* Build up to the return of buildTokenIndex: the reader is read to its end
\* through the tee, which copies every byte read into b1 and b2
buildTokenIndex ==
    /\ pc = "new"
    /\ \E bytes \in Streams, end \in {"EOF", "ERR"} :
          LET r == processStream(bytes, end)
          IN  /\ corpus' = [bytes |-> bytes, end |-> end]
              /\ b1' = bytes
              /\ b2' = bytes
              /\ tokensIdx' = TokenPass(tokensIdx, r.calls)
              /\ IF r.err # "nil"
                 THEN pc' = "failed" /\ buildErr' = r.err
                 ELSE pc' = "pass1" /\ buildErr' = buildErr
    /\ UNCHANGED <<prefixLength, startingPrefixIdx, chain, sp, gen, added, nAdds, found>>

\* Build from there to the return of buildPrefixIndex, which drains b1
buildPrefixIndex ==
    /\ pc = "pass1"
    /\ LET r == processStream(b1, "EOF")
       IN  /\ startingPrefixIdx' = PrefixPass(startingPrefixIdx, r.calls)
           /\ b1' = <<>>
           /\ IF r.err # "nil"
              THEN pc' = "failed" /\ buildErr' = r.err
              ELSE pc' = "pass2" /\ buildErr' = buildErr
    /\ UNCHANGED <<prefixLength, tokensIdx, chain, sp, corpus, b2, gen, added, nAdds, found>>

\* Build from there to its return: buildChain, which drains b2
buildChain ==
    /\ pc = "pass2"
    /\ LET r  == processStream(b2, "EOF")
           st == ChainPass([chain |-> chain, sp |-> sp, panicked |-> FALSE], r.calls)
       IN  /\ chain' = st.chain
           /\ sp' = st.sp
           /\ b2' = <<>>
           /\ IF st.panicked
              THEN pc' = "buildPanic" /\ buildErr' = buildErr
              ELSE pc' = "built" /\ buildErr' = r.err
    /\ UNCHANGED <<prefixLength, tokensIdx, startingPrefixIdx, corpus, b1, gen, added, nAdds, found>>

\* the last prefixLength tokens of a returned phrase, joined: the last key looked up
LastKey(out) ==
    LET sentence == Split(out, delim)
    IN  Join(SubSeq(sentence, Len(sentence) - prefixLength + 1, Len(sentence)), delim)

\* Generate whose map read creates the entry of an absent key
GenerateInserting ==
    /\ pc \in {"new", "built", "failed"}
    /\ \E l \in GenLengths :
          \E o \in GenerateOutcomes(l) :
             /\ gen' = [l |-> l, res |-> o.res, out |-> o.out]
             /\ pc' = IF o.res = "panic" THEN "genPanic" ELSE pc
             /\ chain' = IF o.res = "ok" /\ Len(Split(o.out, delim)) < l
                          THEN [k \in DOMAIN chain \cup {LastKey(o.out)} |-> Lookup(chain, k)]
                          ELSE chain
    /\ UNCHANGED <<prefixLength, tokensIdx, startingPrefixIdx, sp, corpus,
                   b1, b2, buildErr, added, nAdds, found>>

\* Generate(l), on a Chain that is not inside Build
Generate ==
    /\ pc \in {"new", "built", "failed"}
    /\ \E l \in GenLengths :
          \E o \in GenerateOutcomes(l) :
             /\ gen' = [l |-> l, res |-> o.res, out |-> o.out]
             /\ pc' = IF o.res = "panic" THEN "genPanic" ELSE pc
    /\ UNCHANGED <<prefixLength, tokensIdx, startingPrefixIdx, chain, sp, corpus,
                   b1, b2, buildErr, added, nAdds, found>>

Next == buildTokenIndex \/ buildPrefixIndex \/ buildChain \/ Generate

Spec == Init /\ [][Next]_vars

---------------------------------------------------------------------------
(* The index on its own: any sequence of Add calls, and Find *)

\* the tokens of the index tests, and the empty string:
\* "", "HELLO", "abc", "boo", "fo", "foo", "hello"
TestTokens ==
    { <<>>,
      <<72, 69, 76, 76, 79>>,
      <<97, 98, 99>>,
      <<98, 111, 111>>,
      <<102, 111>>,
      <<102, 111, 111>>,
      <<104, 101, 108, 108, 111>> }

\* i := index{}
InitIndex ==
    /\ prefixLength = 1
    /\ tokensIdx = <<>>
    /\ startingPrefixIdx = <<>>
    /\ chain = EmptyChain
    /\ sp = <<>>
    /\ corpus = NoCorpus
    /\ b1 = <<>>
    /\ b2 = <<>>
    /\ pc = "index"
    /\ buildErr = "none"
    /\ gen = NoGen
    /\ added = {}
    /\ nAdds = 0
    /\ found = NoFind

\* i.Add(token)
IndexAdd ==
    /\ pc = "index"
    /\ nAdds < MaxAdds
    /\ \E token \in TestTokens :
          /\ tokensIdx' = Add(tokensIdx, token)
          /\ added' = added \cup {token}
    /\ nAdds' = nAdds + 1
    /\ found' = NoFind
    /\ UNCHANGED <<prefixLength, startingPrefixIdx, chain, sp, corpus, b1, b2,
                   pc, buildErr, gen>>

\* i.Find(token)
IndexFind ==
    /\ pc = "index"
    /\ \E token \in TestTokens :
          found' = [token |-> token, pos |-> Find(tokensIdx, token)]
    /\ UNCHANGED <<prefixLength, tokensIdx, startingPrefixIdx, chain, sp, corpus,
                   b1, b2, pc, buildErr, gen, added, nAdds>>

NextIndex == IndexAdd \/ IndexFind

SpecIndex == InitIndex /\ [][NextIndex]_vars

---------------------------------------------------------------------------
(* What the claims speak of *)

Elems(seq) == { seq[i] : i \in DOMAIN seq }

RECURSIVE Flatten(_)
Flatten(seqs) == IF seqs = <<>> THEN <<>> ELSE Head(seqs) \o Flatten(Tail(seqs))

\* the corpus lines, tokenized, in order
CorpusLines == processStream(corpus.bytes, corpus.end).calls

\* the phrase Generate returned, as tokens
Phrase == Split(gen.out, delim)

\* every place of a line where prefixLength tokens are followed by one more
LineWindows(tokens) ==
    IF Len(tokens) <= prefixLength THEN <<>>
    ELSE [i \in 1..(Len(tokens) - prefixLength) |->
            [prefix |-> Join(SubSeq(tokens, i, i + prefixLength - 1), delim),
             suffix |-> tokens[i + prefixLength]]]

\* those places over the whole corpus, in corpus order
CorpusWindows ==
    Flatten([n \in 1..Len(CorpusLines) |-> LineWindows(CorpusLines[n])])

\* the tokens of the newline-terminated lines of the corpus
CompleteLineTokens ==
    LET bytes == corpus.bytes
        ends  == { i \in 1..Len(bytes) : bytes[i] = newline }
        start(e) == 1 + (CHOOSE m \in {0} \cup ends :
                            /\ m < e
                            /\ \A q \in ends : q < e => q <= m)
    IN  UNION { Elems(Tokenize(SubSeq(bytes, start(e), e))) : e \in ends }

\* what follows the last newline of the corpus
Fragment ==
    LET bytes == corpus.bytes
        ends  == { i \in 1..Len(bytes) : bytes[i] = newline }
        last  == CHOOSE m \in {0} \cup ends : \A q \in ends : q <= m
    IN  SubSeq(bytes, last + 1, Len(bytes))

---------------------------------------------------------------------------
(* Claims *)

\* C1: every phrase Generate(maxLength) returns has between prefixLength and
\* maxLength tokens, for every maxLength (also maxLength < prefixLength).
GenerateLengthWithinBounds ==
    gen.res = "ok" =>
        /\ prefixLength <= Len(Phrase)
        /\ Len(Phrase) <= gen.l

\* C2: Generate on a Chain whose starting-frequency list is empty (never built,
\* or built from a corpus too sparse) returns an error and never panics.
GenerateOnEmptyReturnsError ==
    (gen.res # "none" /\ sp = <<>>) => gen.res = "error"

\* C3: a returned phrase starts with the first prefixLength tokens of some corpus
\* line; every later token follows, on some corpus line, the prefixLength tokens
\* before it in the phrase; and the phrase is shorter than maxLength only if its
\* last prefixLength tokens have no continuation in the transition map.
GeneratedPhraseFollowsCorpus ==
    gen.res = "ok" =>
        LET n == Len(Phrase)
            lines == CorpusLines
        IN  /\ n >= prefixLength
            /\ \E k \in 1..Len(lines) :
                  /\ Len(lines[k]) >= prefixLength
                  /\ SubSeq(lines[k], 1, prefixLength) = SubSeq(Phrase, 1, prefixLength)
            /\ \A j \in (prefixLength + 1)..n :
                  \E k \in 1..Len(lines) :
                     \E i \in 1..(Len(lines[k]) - prefixLength) :
                        /\ SubSeq(lines[k], i, i + prefixLength - 1)
                              = SubSeq(Phrase, j - prefixLength, j - 1)
                        /\ lines[k][i + prefixLength] = Phrase[j]
            /\ n < gen.l =>
                  Lookup(chain, Join(SubSeq(Phrase, n - prefixLength + 1, n), delim)) = <<>>

\* a phrase that took one continuation and then stopped short of maxLength
PhraseStoppedEarly ==
    /\ gen.res = "ok"
    /\ Len(Phrase) = prefixLength + 1
    /\ Len(Phrase) < gen.l

\* C4: after any sequence of Add calls on an empty index the tokens are strictly
\* ascending, without duplicates, and are exactly the tokens passed to Add; an
\* Add of a token already present changes nothing.
IndexSortedUnique ==
    /\ \A i \in 1..(Len(tokensIdx) - 1) : StrLess(tokensIdx[i], tokensIdx[i + 1])
    /\ Elems(tokensIdx) = added
    /\ \A token \in added : Add(tokensIdx, token) = tokensIdx

\* the index test's last state: six Add calls, two of them of a token present
IndexTestAdded ==
    /\ nAdds = 6
    /\ tokensIdx = << <<97, 98, 99>>, <<98, 111, 111>>, <<102, 111, 111>>,
                      <<104, 101, 108, 108, 111>> >>

\* C5: Find(s) returns the position p with Get(p) = s when s was added, and -1
\* when s was never added, also when s is a proper prefix of a stored token or
\* differs from one only in letter case.
FindExact ==
    found # NoFind =>
        IF found.token \in added
        THEN /\ InRange(tokensIdx, found.pos)
             /\ Get(tokensIdx, found.pos) = found.token
        ELSE found.pos = -1

\* Find("fo") on the index abc, boo, foo, hello
FindMissesPrefix ==
    /\ found = [token |-> <<102, 111>>, pos |-> -1]
    /\ tokensIdx = << <<97, 98, 99>>, <<98, 111, 111>>, <<102, 111, 111>>,
                      <<104, 101, 108, 108, 111>> >>

\* C6: after Build, sp has one entry per corpus line of at least prefixLength
\* tokens, in line order, each the position in the starting-prefix index of the
\* line's first prefixLength tokens joined; every registered starting prefix
\* appears in sp.
StartingFrequenciesPerLine ==
    pc = "built" =>
        LET q == SelectSeq(CorpusLines, LAMBDA t : Len(t) >= prefixLength)
        IN  /\ Len(sp) = Len(q)
            /\ \A i \in 1..Len(q) :
                  /\ InRange(startingPrefixIdx, sp[i])
                  /\ Get(startingPrefixIdx, sp[i]) = Join(SubSeq(q[i], 1, prefixLength), delim)
            /\ \A p \in 0..(Len(startingPrefixIdx) - 1) : \E i \in DOMAIN sp : sp[i] = p

\* C7: after Build, transitions[K] resolves through the token index to the
\* tokens that follow K in the corpus, once per occurrence and in corpus order,
\* and K is a key only if it occurs followed by a token.
TransitionsCountOccurrences ==
    pc = "built" =>
        LET w == CorpusWindows
        IN  /\ DOMAIN chain = { w[j].prefix : j \in DOMAIN w }
            /\ \A K \in DOMAIN chain :
                  LET after == SelectSeq(w, LAMBDA x : x.prefix = K)
                  IN  /\ Len(chain[K]) = Len(after)
                      /\ Len(chain[K]) >= 1
                      /\ \A i \in DOMAIN chain[K] :
                            /\ InRange(tokensIdx, chain[K][i])
                            /\ Get(tokensIdx, chain[K][i]) = after[i].suffix
                      /\ \A t \in Elems(tokensIdx) :
                            Cardinality({ i \in DOMAIN chain[K] :
                                            Get(tokensIdx, chain[K][i]) = t })
                            = Cardinality({ j \in DOMAIN w :
                                            w[j].prefix = K /\ w[j].suffix = t })

\* a key followed by two different tokens, the later-sorted one first
TransitionsOutOfSortOrder ==
    /\ pc = "built"
    /\ \E K \in DOMAIN chain :
          /\ Len(chain[K]) >= 2
          /\ chain[K][1] > chain[K][2]

\* C8: a reader failing with an error other than end-of-stream makes Build return
\* that error at once: the fragment read with the error reaches no callback,
\* passes 2 and 3 do not run, transitions and sp stay as they were; a reader
\* ending with end-of-stream (final newline or not) makes Build return no error.
ReadFailureAbortsBuild ==
    /\ corpus.end = "ERR" =>
          /\ buildErr = "err"
          /\ pc \in {"failed", "genPanic"}
          /\ Elems(tokensIdx) = CompleteLineTokens
          /\ startingPrefixIdx = <<>>
          /\ chain = EmptyChain
          /\ sp = <<>>
          /\ b1 = corpus.bytes
          /\ b2 = corpus.bytes
    /\ corpus.end = "EOF" =>
          /\ buildErr \in {"none", "nil"}
          /\ pc # "failed"
          /\ pc = "built" => buildErr = "nil"

\* a failed Build that saw whole lines and dropped a fragment with a new token
FailedAfterWholeLines ==
    /\ pc = "failed"
    /\ tokensIdx # <<>>
    /\ \E t \in Elems(Tokenize(Fragment)) : t \notin Elems(tokensIdx)

\* C9: Generate, whether it returns a phrase or an error, leaves the token index,
\* the starting-prefix index, the transition map with its key set, the
\* starting-frequency list and prefixLength as they were.
GenerateReadOnly ==
    [][Generate =>
          /\ tokensIdx' = tokensIdx
          /\ startingPrefixIdx' = startingPrefixIdx
          /\ chain' = chain
          /\ DOMAIN chain' = DOMAIN chain
          /\ sp' = sp
          /\ prefixLength' = prefixLength]_vars

\* a Generate that looked up a key the transition map does not have
GenerateLookedUpAbsentKey ==
    /\ gen.res = "ok"
    /\ Len(Phrase) < gen.l
    /\ chain # EmptyChain
    /\ LastKey(gen.out) \notin DOMAIN chain

\* C10: during Build on a fresh Chain no lookup of pass 3 fails, so Build never
\* panics, and no index changes once a position is recorded; when Build
\* returns, every position in transitions and in sp is in range of its index.
BuildLookupsSucceed ==
    /\ [](/\ pc # "buildPanic"
          /\ pc = "built" =>
                /\ \A K \in DOMAIN chain : \A i \in DOMAIN chain[K] :
                      InRange(tokensIdx, chain[K][i])
                /\ \A i \in DOMAIN sp : InRange(startingPrefixIdx, sp[i]))
    /\ [][(chain # EmptyChain \/ sp # <<>> \/ chain' # chain \/ sp' # sp) =>
             /\ tokensIdx' = tokensIdx
             /\ startingPrefixIdx' = startingPrefixIdx]_vars

\* a built Chain with positions recorded into indexes of several entries
BuiltWithSeveralEntries ==
    /\ pc = "built"
    /\ sp # <<>>
    /\ Len(startingPrefixIdx) >= 2
    /\ Len(tokensIdx) >= 2

=============================================================================
